---- MODULE Spec2Model ----
(***************************************************************************)
(* A model of process_executor (src/rust/engine/process_executor/src/      *)
(* main.rs): the resolution of the command line into a process request     *)
(* (make_request and the three functions it dispatches to), the choice of  *)
(* the runner pipeline, the invocation, and the output stage of main; and  *)
(* of the client's options Config (src/rust/engine/client/src/options/     *)
(* config.rs): the merge of config files and the reading of a string list. *)
(*                                                                         *)
(* Strings are kept as TLA+ strings where the code only compares or        *)
(* copies them, and as sequences of their parts where the code takes them  *)
(* apart: a URL is the sequence of its '/'-separated segments, a path the  *)
(* sequence of its components, a key=value string the sequence of its      *)
(* '='-separated pieces, a byte string a sequence of byte values.          *)
(***************************************************************************)
EXTENDS Integers, Sequences, FiniteSets, TLC

VARIABLES
  args,        \* the parsed command line (Opt), fixed for the invocation
  host,        \* the platform of the machine the program runs on
  cas,         \* the Store's contents: fingerprint -> entry
  pc,          \* the position of main
  reqResult,   \* what make_request returned: <<>> before the call, else <<Ok/Err>>
  storeLog,    \* the Store accesses make_request has performed, in order
  request,     \* the request main holds (after expect, then after run_under)
  metadata,    \* the ProcessMetadata main holds
  constructed, \* the runners constructed so far, in construction order
  runner,      \* the boxed runner main ends up with: <<>> or <<runner>>
  runLog,      \* the runners whose run was entered, outermost first
  result,      \* the runner's result: <<>> or <<FallibleProcessResult>>
  outputs,     \* the Store's contents under the result's stdout/stderr digests
  materialized,\* where the output directory was materialized: <<>> or <<path>>
  stdoutBuf,   \* the bytes loaded for stdout: <<>> or <<bytes>>
  stderrBuf,   \* the bytes loaded for stderr: <<>> or <<bytes>>
  out,         \* what was written to the process's standard output
  err,         \* what was written to the process's standard error
  exitStatus,  \* <<>> while running, <<code>> after exit(code)
  panicMsg,    \* <<>> or <<message>> of the panic that aborted main
  overflow_checks, \* whether the build checks integer arithmetic for overflow
  config_files, \* the config files given to Config::merged, in order
  merged_config, \* what Config::merged returned: <<>> before the call, else <<Ok/Err>>
  option_id,   \* the OptionId get_string_list was asked for: <<>> or <<id>>
  list_edits   \* what get_string_list returned: <<>> or <<Ok/Err>>

vars == <<args, host, cas, pc, reqResult, storeLog, request, metadata, constructed,
          runner, runLog, result, outputs, materialized, stdoutBuf, stderrBuf,
          out, err, exitStatus, panicMsg, overflow_checks,
          config_files, merged_config, option_id, list_edits>>

\* the state of the options Config
configVars == <<config_files, merged_config, option_id, list_edits>>

\* the state of process_executor, but for the position
executorVars == <<args, host, cas, reqResult, storeLog, request, metadata, constructed,
                  runner, runLog, result, outputs, materialized, stdoutBuf, stderrBuf,
                  out, err, exitStatus, panicMsg, overflow_checks>>

----------------------------------------------------------------------------
(* Option and Result *)

None == <<>>

Some(x) == <<x>>

IsSome(o) == o /= <<>>

Ok(v) == [ok |-> TRUE, val |-> v]

Err(e) == [ok |-> FALSE, err |-> e]

----------------------------------------------------------------------------
(* Bounds of the model *)

\* the longest stdout / stderr byte string the runner produces
MaxOutputLen == 2

\* the most '/' characters a URL ends with
MaxTrailingSlashes == 1

\* the most config files Config::merged is given
MaxConfigFiles == 3

\* the byte strings of at most n bytes over a set of byte values
ByteStringsUpTo(values, n) == UNION {[1..k -> values] : k \in 0..n}

----------------------------------------------------------------------------
(* Digests, fingerprints and the parsing of their textual forms *)

\* hashing::Digest
Digest(fp, len) == [fingerprint |-> fp, size_bytes |-> len]

\* the digest field of an error that is about no digest
NoDigest == Digest("", 0)

\* An error string: the text the code formats, the error it wraps, and the
\* digest the text includes.
Error(msg, cause, digest) == [msg |-> msg, cause |-> cause, digest |-> digest]

\* e.enrich(prefix).to_string() of a StoreError: the prefix, then the error
\* with its digest
Enriched(prefix, e) == Error(prefix, e.kind, e.digest)

\* Fingerprint::from_hex_string: hex digits of either case decode to the same
\* fingerprint (named by its lower-case form); anything else is an error.
FromHexString(s) ==
  CASE s \in {"aa", "AA"} -> Ok("aa")
    [] s \in {"bb", "BB"} -> Ok("bb")
    [] s \in {"cc", "CC"} -> Ok("cc")
    [] s \in {"dd", "DD"} -> Ok("dd")
    [] OTHER -> Err(Error("Not a valid hex fingerprint", "FromHexError", NoDigest))

\* Fingerprint::to_hex
ToHex(fp) == fp

\* str::parse::<usize>: decimal digits with an optional leading '+'.
ParseUsize(s) ==
  CASE s \in {"7", "07", "+7"} -> Ok(7)
    [] s \in {"9", "09"} -> Ok(9)
    [] s = "0" -> Ok(0)
    [] OTHER -> Err("ParseIntError")

\* usize's Display
UsizeToString(n) ==
  CASE n = 7 -> "7"
    [] n = 9 -> "9"
    [] n = 0 -> "0"
    [] OTHER -> "?"

\* protos::require_digest: an absent digest is a protocol violation, a
\* present one is converted field by field (the hash parsed as hex).
RequireDigest(opt) ==
  IF opt = None
  THEN Err(Error("Protocol violation: Digest missing from a Remote Execution API protobuf.",
                 "String", NoDigest))
  ELSE LET fp == FromHexString(opt[1].hash)
       IN  IF fp.ok THEN Ok(Digest(fp.val, opt[1].size_bytes)) ELSE fp

----------------------------------------------------------------------------
(* Paths *)

\* A path is the sequence of its components; "/" stands for the root
\* component of an absolute path, ".." for a parent-directory component.
IsRelativeAndContained(path) ==
  \A i \in 1..Len(path) : path[i] \notin {"/", ".."}

\* fs::RelativePath::new: a path that is absolute or has a parent-directory
\* component is refused. (The inputs hold no path whose parent-directory
\* component stays inside the root, such as a/../b.)
RelativePathNew(path) ==
  IF IsRelativeAndContained(path)
  THEN Ok(path)
  ELSE Err(Error("Relative paths that escape the root are not allowed", "String", NoDigest))

\* iter.map(RelativePath::new).collect::<Result<BTreeSet<_>, _>>(): the first
\* error in iteration order, else the set of the parsed paths.
RECURSIVE CollectRelativePaths(_)
CollectRelativePaths(paths) ==
  IF paths = <<>>
  THEN Ok({})
  ELSE LET first == RelativePathNew(Head(paths))
       IN  IF ~first.ok
           THEN first
           ELSE LET rest == CollectRelativePaths(Tail(paths))
                IN  IF rest.ok THEN Ok({first.val} \cup rest.val) ELSE rest

----------------------------------------------------------------------------
(* The Store facade: contents and loads *)

\* An entry of the Store. A file entry records what each protobuf decoder
\* makes of its bytes (None: the bytes do not decode as that message).
AbsentEntry == [type |-> "absent"]

DirectoryEntry == [type |-> "directory"]

FileEntry(asAction, asCommand, asResult) ==
  [type |-> "file", action |-> asAction, command |-> asCommand, result |-> asResult]

\* One access to the Store, as recorded in storeLog: the operation, what the
\* bytes are decoded as, the digest, and whether the Store had it.
Access(op, what, digest, ok) == [op |-> op, what |-> what, digest |-> digest, ok |-> ok]

\* StoreError::MissingDigest, which carries the digest
MissingDigest(digest) == [kind |-> "MissingDigest", digest |-> digest]

\* Store::load_file_bytes_with: the entry's bytes, or MissingDigest when the
\* Store holds no file under the digest.
LoadFileBytes(store, digest) ==
  IF store[digest.fingerprint].type = "file"
  THEN Ok(store[digest.fingerprint])
  ELSE Err(MissingDigest(digest))

\* Store::load_directory: succeeds when the Store holds a directory under
\* the digest.
LoadDirectory(store, digest) ==
  IF store[digest.fingerprint].type = "directory"
  THEN Ok(digest)
  ELSE Err(MissingDigest(digest))

\* Action::decode, Command::decode, UncachedActionResult::decode
ActionDecode(bytes) ==
  IF bytes.action = None THEN Err("DecodeError") ELSE Ok(bytes.action[1])

CommandDecode(bytes) ==
  IF bytes.command = None THEN Err("DecodeError") ELSE Ok(bytes.command[1])

UncachedActionResultDecode(bytes) ==
  IF bytes.result = None THEN Err("DecodeError") ELSE Ok(bytes.result[1])

\* A resolution in progress or finished: the value and the accesses so far.
Outcome(res, log) == [res |-> res, log |-> log]

----------------------------------------------------------------------------
(* Key=value strings *)

\* A key=value string is the sequence of its '='-separated pieces.
\* splitn(2, '='): the first piece, and the rest of the string (the empty
\* string when there is no '=').
SplitKeyValue(kv) ==
  <<Head(kv), IF Len(kv) = 1 THEN <<"">> ELSE Tail(kv)>>

\* collection_from_keyvalues collected into a Vec: the pairs in order.
PairsFromKeyValues(kvs) ==
  [i \in 1..Len(kvs) |-> SplitKeyValue(kvs[i])]

\* Pairs collected into a BTreeMap: a later pair replaces an earlier one
\* with the same key.
MapFromPairs(pairs) ==
  [k \in {pairs[i][1] : i \in 1..Len(pairs)} |->
     LET last == CHOOSE i \in 1..Len(pairs) :
                   /\ pairs[i][1] = k
                   /\ \A j \in 1..Len(pairs) : pairs[j][1] = k => j <= i
     IN  pairs[last][2]]

\* collection_from_keyvalues collected into a BTreeMap
collection_from_keyvalues(kvs) == MapFromPairs(PairsFromKeyValues(kvs))

----------------------------------------------------------------------------
(* Machine integers *)

\* A u64 is the sequence of its eight bytes, the least significant first; a
\* wider intermediate result has more bytes.

\* the k low bytes of a natural number
RECURSIVE NatBytes(_, _)
NatBytes(n, k) == IF k = 0 THEN <<>> ELSE <<n % 256>> \o NatBytes(n \div 256, k - 1)

\* `x as u64` of a signed x: the sign is extended and the two's complement
\* bits are kept, so a negative x becomes 2^64 + x. (x is an i32, or an i64
\* within the range of one.)
AsU64(x) ==
  IF x >= 0
  THEN NatBytes(x, 8)
  ELSE LET ones == NatBytes(-(x + 1), 8)
       IN  [i \in 1..8 |-> 255 - ones[i]]

\* a + b of two u64, byte by byte with the carries c; nine bytes, the last
\* of which is the carry out
AddBytes(a, b) ==
  LET c[i \in 0..8] == IF i = 0 THEN 0 ELSE (a[i] + b[i] + c[i - 1]) \div 256
  IN  [i \in 1..9 |-> IF i = 9 THEN c[8] ELSE (a[i] + b[i] + c[i - 1]) % 256]

\* a * b of two u64 by long multiplication; sixteen bytes. col[k] is the sum
\* of the byte products a[i] * b[j] of column k (i + j = k + 1), c the carries.
MulBytes(a, b) ==
  LET term(k, i) == IF k + 1 - i \in 1..8 THEN a[i] * b[k + 1 - i] ELSE 0
      col(k) == term(k, 1) + term(k, 2) + term(k, 3) + term(k, 4)
                + term(k, 5) + term(k, 6) + term(k, 7) + term(k, 8)
      c[k \in 0..16] == IF k = 0 THEN 0 ELSE (col(k) + c[k - 1]) \div 256
  IN  [k \in 1..16 |-> (col(k) + c[k - 1]) % 256]

\* a panic inside a function: it returns nothing
Panicked(msg) == [ok |-> FALSE, panic |-> msg]

IsPanic(r) == "panic" \in DOMAIN r

\* The result of a u64 operation whose exact value is `wide`: the low eight
\* bytes when the value fits; when it does not, a panic in a build with
\* overflow checks and the wrapped value in a build without.
U64Result(wide, msg) ==
  IF (\A i \in 9..Len(wide) : wide[i] = 0) \/ ~overflow_checks
  THEN Ok(SubSeq(wide, 1, 8))
  ELSE Panicked(msg)

\* a + b on u64
U64Add(a, b) == U64Result(AddBytes(a, b), "attempt to add with overflow")

\* a * b on u64
U64Mul(a, b) == U64Result(MulBytes(a, b), "attempt to multiply with overflow")

\* x / d and x % d on u64 for 0 < d < 2^23, by long division from the top
\* byte down: rem[k] is the remainder of the bytes from k up.
DivRem(x, d) ==
  LET rem[k \in 1..9] == IF k = 9 THEN 0 ELSE (256 * rem[k + 1] + x[k]) % d
  IN  [quot |-> [k \in 1..8 |-> (256 * rem[k + 1] + x[k]) \div d],
       rem |-> rem[1]]

----------------------------------------------------------------------------
(* Durations *)

\* A std::time::Duration: secs is a u64, nanos is below one second.

NanosPerSec == 1000000000

\* Duration::from_nanos(n) of a u64 n: n / NanosPerSec whole seconds and
\* n % NanosPerSec nanoseconds. The division by 10^9 is made as three
\* divisions by 10^3, whose remainders are the three groups of digits of
\* the nanoseconds.
DurationFromNanos(n) ==
  LET low  == DivRem(n, 1000)
      mid  == DivRem(low.quot, 1000)
      high == DivRem(mid.quot, 1000)
  IN  [secs |-> high.quot, nanos |-> low.rem + 1000 * mid.rem + 1000000 * high.rem]

\* Duration::new(secs, nanos) with nanos below one second
DurationNew(secs, nanos) == [secs |-> NatBytes(secs, 8), nanos |-> nanos]

\* Duration::from_millis(0)
ZeroDuration == DurationNew(0, 0)

\* action.timeout.map(|timeout| Duration::from_nanos(timeout.nanos as u64 +
\* timeout.seconds as u64 * 1000000000)): the product is taken first, then
\* the sum.
TimeoutDuration(timeout) ==
  LET product == U64Mul(AsU64(timeout.seconds), NatBytes(NanosPerSec, 8)) IN
  IF IsPanic(product) THEN product
  ELSE LET sum == U64Add(AsU64(timeout.nanos), product.val) IN
       IF IsPanic(sum) THEN sum ELSE Ok(DurationFromNanos(sum.val))

\* the flat shape's default timeout, Duration::new(15 * 60, 0)
DefaultTimeoutSecs == 900

----------------------------------------------------------------------------
(* Request resolution *)

\* LoadInputRoot with the load's result dropped
LoadInputRoot_Unchecked(store, digest) == Ok(digest)

\* the eager load of the input root: store.load_directory(...).await
LoadInputRoot(store, digest) == LoadDirectory(store, digest)

\* CommandLoadError with the Store's error reported as the decoder's
CommandLoadError_AsDecode(e) ==
  Error("Error deserializing command proto", "DecodeError", e.digest)

\* the two errors of the Command load: the Store's, and the decoder's
CommandLoadError(e) == Enriched("Could not load command proto from CAS", e)

CommandDecodeError(e, digest) == Error("Error deserializing command proto", e, digest)

\* extract_request_from_action_digest, from the loaded Command on: the
\* working directory, the input root and its eager load, the outputs, the
\* timeout (the fields of the Process in the order they are written).
RequestFromCommand(store, action, command, execution_strategy, platform, instance_name, log) ==
  LET wd == IF command.working_directory = <<>>
            THEN Ok(None)
            ELSE LET rp == RelativePathNew(command.working_directory)
                 IN  IF rp.ok
                     THEN Ok(Some(rp.val))
                     ELSE Err(Error("working-directory must be a relative path",
                                    "String", NoDigest))
      root == RequireDigest(action.input_root_digest)
  IN
  IF ~wd.ok THEN Outcome(wd, log)
  ELSE IF ~root.ok
  THEN Outcome(Err(Error("Bad input root digest", root.err.cause, NoDigest)), log)
  ELSE
  LET dir  == LoadInputRoot(store, root.val)
      log2 == Append(log, Access("load_directory", "Directory", root.val, dir.ok))
      output_files       == CollectRelativePaths(command.output_files)
      output_directories == CollectRelativePaths(command.output_directories)
      timeout == IF action.timeout = None
                 THEN Ok(None)
                 ELSE LET d == TimeoutDuration(action.timeout[1])
                      IN  IF IsPanic(d) THEN d ELSE Ok(Some(d.val))
  IN
  IF ~dir.ok THEN Outcome(Err(Enriched("", dir.err)), log2)
  ELSE IF ~output_files.ok THEN Outcome(output_files, log2)
  ELSE IF ~output_directories.ok THEN Outcome(output_directories, log2)
  ELSE IF IsPanic(timeout) THEN Outcome(timeout, log2)
  ELSE
  Outcome(
    Ok([process |->
          [argv |-> command.arguments,
           env |-> MapFromPairs(command.environment_variables),
           working_directory |-> wd.val,
           input_digests |-> root.val,
           output_files |-> output_files.val,
           output_directories |-> output_directories.val,
           timeout |-> timeout.val,
           execution_slot_variable |-> None,
           concurrency_available |-> 0,
           description |-> "",
           level |-> "Error",
           jdk_home |-> None,
           platform |-> platform,
           cache_scope |-> "Always",
           execution_strategy |-> execution_strategy,
           remote_cache_speculation_delay |-> ZeroDuration],
        metadata |->
          [instance_name |-> instance_name,
           cache_key_gen_version |-> None]]),
    log2)

\* extract_request_from_action_digest, entered with the accesses `log`
\* already performed by the caller.
ExtractFromActionDigest(store, action_digest, execution_strategy, platform, instance_name, log) ==
  LET abytes == LoadFileBytes(store, action_digest)
      log1   == Append(log, Access("load_file_bytes_with", "Action", action_digest, abytes.ok))
  IN
  IF ~abytes.ok
  THEN Outcome(Err(Enriched("Could not load action proto from CAS", abytes.err)), log1)
  ELSE
  LET action == ActionDecode(abytes.val) IN
  IF ~action.ok
  THEN Outcome(Err(Error("Error deserializing action proto", action.err,
                         action_digest)), log1)
  ELSE
  LET command_digest == RequireDigest(action.val.command_digest) IN
  IF ~command_digest.ok
  THEN Outcome(Err(Error("Bad Command digest", command_digest.err.cause, NoDigest)), log1)
  ELSE
  LET cbytes == LoadFileBytes(store, command_digest.val)
      log2   == Append(log1, Access("load_file_bytes_with", "Command", command_digest.val, cbytes.ok))
  IN
  IF ~cbytes.ok
  THEN Outcome(Err(CommandLoadError(cbytes.err)), log2)
  ELSE
  LET command == CommandDecode(cbytes.val) IN
  IF ~command.ok
  THEN Outcome(Err(CommandDecodeError(command.err, command_digest.val)), log2)
  ELSE RequestFromCommand(store, action.val, command.val, execution_strategy,
                          platform, instance_name, log2)

extract_request_from_action_digest(store, action_digest, execution_strategy, platform, instance_name) ==
  ExtractFromActionDigest(store, action_digest, execution_strategy, platform,
                          instance_name, <<>>)

\* str::trim_end_matches('/') followed by split('/'), on a URL given as the
\* sequence of its '/'-separated segments: the trailing slashes are the
\* trailing empty segments, and the empty string splits into one empty segment.
RECURSIVE TrimEndSlashes(_)
TrimEndSlashes(url) ==
  IF Len(url) > 1 /\ url[Len(url)] = ""
  THEN TrimEndSlashes(SubSeq(url, 1, Len(url) - 1))
  ELSE url

\* the "action" arm of extract_request_from_buildbarn_url
UrlActionDigest(parts) ==
  LET fp == FromHexString(parts[3]) IN
  IF ~fp.ok THEN fp
  ELSE LET len == ParseUsize(parts[4]) IN
       IF ~len.ok
       THEN Err(Error("Couldn't parse action digest length as a number", len.err, NoDigest))
       ELSE Ok(Digest(fp.val, len.val))

\* UrlActionResultDigest with a length that does not parse taken as 0
UrlActionResultDigest_LengthDefaults(parts) ==
  LET fp == FromHexString(parts[3]) IN
  IF ~fp.ok THEN fp
  ELSE LET len == ParseUsize(parts[4]) IN
       Ok(Digest(fp.val, IF len.ok THEN len.val ELSE 0))

\* the "uncached_action_result" arm, up to the Store load
UrlActionResultDigest(parts) ==
  LET fp == FromHexString(parts[3]) IN
  IF ~fp.ok THEN fp
  ELSE LET len == ParseUsize(parts[4]) IN
       IF ~len.ok
       THEN Err(Error("Couldn't parse uncached action digest result length as a number",
                      len.err, NoDigest))
       ELSE Ok(Digest(fp.val, len.val))

\* the instance name handed on by extract_request_from_buildbarn_url
UrlInstance(parts) == Some(parts[2])

\* the "action" arm: the digest is the URL's own
ResolveActionUrl(store, parts, execution_strategy, platform) ==
  LET d == UrlActionDigest(parts) IN
  IF ~d.ok THEN Outcome(d, <<>>)
  ELSE ExtractFromActionDigest(store, d.val, execution_strategy, platform,
                               UrlInstance(parts), <<>>)

\* ResolveUncachedActionResultUrl with the record's own digest taken for the
\* Action's
ResolveUncachedActionResultUrl_NoSecondHop(store, parts, execution_strategy, platform) ==
  ResolveActionUrl(store, parts, execution_strategy, platform)

\* the "uncached_action_result" arm: the URL's digest names a record, whose
\* action_digest is the Action to resolve
ResolveUncachedActionResultUrl(store, parts, execution_strategy, platform) ==
  LET d == UrlActionResultDigest(parts) IN
  IF ~d.ok THEN Outcome(d, <<>>)
  ELSE
  LET rbytes == LoadFileBytes(store, d.val)
      log1   == <<Access("load_file_bytes_with", "UncachedActionResult", d.val, rbytes.ok)>>
  IN
  IF ~rbytes.ok
  THEN Outcome(Err(Enriched("Could not load action result proto", rbytes.err)), log1)
  ELSE
  LET action_result == UncachedActionResultDecode(rbytes.val) IN
  IF ~action_result.ok
  THEN Outcome(Err(Error("Error deserializing action result proto",
                         action_result.err, NoDigest)), log1)
  ELSE
  LET action_digest == RequireDigest(action_result.val.action_digest) IN
  IF ~action_digest.ok THEN Outcome(action_digest, log1)
  ELSE ExtractFromActionDigest(store, action_digest.val, execution_strategy,
                               platform, UrlInstance(parts), log1)

extract_request_from_buildbarn_url(store, buildbarn_url, execution_strategy, platform) ==
  LET url_parts == TrimEndSlashes(buildbarn_url) IN
  IF Len(url_parts) < 4
  THEN Outcome(Err(Error("Buildbarn URL didn't have enough parts", "String", NoDigest)), <<>>)
  ELSE
  LET parts == SubSeq(url_parts, Len(url_parts) - 3, Len(url_parts))
      kind  == parts[1]
  IN
  CASE kind = "action" ->
         ResolveActionUrl(store, parts, execution_strategy, platform)
    [] kind = "uncached_action_result" ->
         ResolveUncachedActionResultUrl(store, parts, execution_strategy, platform)
    [] OTHER ->
         Outcome(Err(Error("Wrong kind in buildbarn URL; wanted action or uncached_action_result",
                           "String", NoDigest)), <<>>)

\* InputDigests::new on the flat shape's root digest alone: the Store merges
\* the one directory, which it must hold.
InputDigestsNew(store, input_files) == LoadDirectory(store, input_files)

\* FlatPaths with the working directory taken as given
FlatPaths_WorkingDirectoryUnchecked(a) ==
  LET output_files == CollectRelativePaths(a.command.output_file_path) IN
  IF ~output_files.ok THEN output_files
  ELSE
  LET output_directories == CollectRelativePaths(a.command.output_directory_path) IN
  IF ~output_directories.ok THEN output_directories
  ELSE Ok([output_files |-> output_files.val,
           output_directories |-> output_directories.val,
           working_directory |-> a.command.working_directory])

\* the paths of the flat shape, validated in the order the code does
FlatPaths(a) ==
  LET output_files == CollectRelativePaths(a.command.output_file_path) IN
  IF ~output_files.ok THEN output_files
  ELSE
  LET output_directories == CollectRelativePaths(a.command.output_directory_path) IN
  IF ~output_directories.ok THEN output_directories
  ELSE
  LET working_directory ==
        IF a.command.working_directory = None
        THEN Ok(None)
        ELSE LET rp == RelativePathNew(a.command.working_directory[1])
             IN  IF rp.ok
                 THEN Ok(Some(rp.val))
                 ELSE Err(Error("working-directory must be a relative path",
                                "String", NoDigest))
  IN
  IF ~working_directory.ok THEN working_directory
  ELSE Ok([output_files |-> output_files.val,
           output_directories |-> output_directories.val,
           working_directory |-> working_directory.val])

make_request_from_flat_args(store, a, input_files, execution_strategy, platform) ==
  LET paths == FlatPaths(a) IN
  IF ~paths.ok THEN Outcome(paths, <<>>)
  ELSE
  LET input_digests == InputDigestsNew(store, input_files)
      log1 == <<Access("InputDigests::new", "Directory", input_files, input_digests.ok)>>
  IN
  IF ~input_digests.ok
  THEN Outcome(Err(Error("Could not create input digest for process",
                         input_digests.err.kind, input_digests.err.digest)), log1)
  ELSE
  Outcome(
    Ok([process |->
          [argv |-> a.command.argv,
           env |-> collection_from_keyvalues(a.command.env),
           working_directory |-> paths.val.working_directory,
           input_digests |-> input_digests.val,
           output_files |-> paths.val.output_files,
           output_directories |-> paths.val.output_directories,
           timeout |-> Some(DurationNew(DefaultTimeoutSecs, 0)),
           execution_slot_variable |-> None,
           concurrency_available |->
             IF a.command.concurrency_available = None
             THEN 0 ELSE a.command.concurrency_available[1],
           description |-> "process_executor",
           level |-> "Info",
           jdk_home |-> a.command.jdk,
           platform |-> platform,
           cache_scope |-> "Always",
           execution_strategy |-> execution_strategy,
           remote_cache_speculation_delay |-> ZeroDuration],
        metadata |->
          [instance_name |-> a.remote_instance_name,
           cache_key_gen_version |-> a.command.cache_key_gen_version]]),
    log1)

\* the remote worker's platform, Platform::Linux_x86_64
RemotePlatform == "Linux_x86_64"

\* the first statement of make_request: the strategy and the platform
ExecutionPlatform_AlwaysHost(a, hostPlatform) == hostPlatform

ExecutionStrategy(a) ==
  IF a.server /= None
  THEN [kind |-> "RemoteExecution",
        properties |-> PairsFromKeyValues(a.command.extra_platform_property)]
  ELSE [kind |-> "Local", properties |-> <<>>]

ExecutionPlatform(a, hostPlatform) ==
  IF a.server /= None THEN RemotePlatform ELSE hostPlatform

\* make_request with a first arm that looks at the flat shape's flags only
make_request_FlatIgnoresOthers(store, a, hostPlatform) ==
  LET execution_strategy == ExecutionStrategy(a)
      platform == ExecutionPlatform(a, hostPlatform)
      id  == a.command.input_digest
      idl == a.command.input_digest_length
      ad  == a.action_digest.action_digest
      adl == a.action_digest.action_digest_length
      url == a.buildbarn_url
  IN
  CASE id /= None /\ idl /= None ->
         make_request_from_flat_args(store, a, Digest(id[1], idl[1]),
                                     execution_strategy, platform)
    [] id = None /\ idl = None /\ ad /= None /\ adl /= None /\ url = None ->
         extract_request_from_action_digest(store, Digest(ad[1], adl[1]),
                                            execution_strategy, platform,
                                            a.remote_instance_name)
    [] id = None /\ idl = None /\ ad = None /\ adl = None /\ url /= None ->
         extract_request_from_buildbarn_url(store, url[1], execution_strategy, platform)
    [] OTHER ->
         Outcome(Err(Error("Must specify either action input digest or action digest or buildbarn URL",
                           "String", NoDigest)), <<>>)

make_request(store, a, hostPlatform) ==
  LET execution_strategy == ExecutionStrategy(a)
      platform == ExecutionPlatform(a, hostPlatform)
      id  == a.command.input_digest
      idl == a.command.input_digest_length
      ad  == a.action_digest.action_digest
      adl == a.action_digest.action_digest_length
      url == a.buildbarn_url
  IN
  CASE id /= None /\ idl /= None /\ ad = None /\ adl = None /\ url = None ->
         make_request_from_flat_args(store, a, Digest(id[1], idl[1]),
                                     execution_strategy, platform)
    [] id = None /\ idl = None /\ ad /= None /\ adl /= None /\ url = None ->
         extract_request_from_action_digest(store, Digest(ad[1], adl[1]),
                                            execution_strategy, platform,
                                            a.remote_instance_name)
    [] id = None /\ idl = None /\ ad = None /\ adl = None /\ url /= None ->
         extract_request_from_buildbarn_url(store, url[1], execution_strategy, platform)
    [] id = None /\ idl = None /\ ad = None /\ adl = None /\ url = None ->
         Outcome(Err(Error("Must specify either action input digest or action digest or buildbarn URL",
                           "String", NoDigest)), <<>>)
    [] OTHER ->
         Outcome(Err(Error("Unsupported combination of arguments - can only set one of action digest or all other action-specifying flags",
                           "String", NoDigest)), <<>>)

----------------------------------------------------------------------------
(* The inputs the model draws from *)

\* the fingerprints the Store is asked about
Fingerprints == {"aa", "bb", "cc", "dd"}

\* the platforms Platform::current() reports; the program runs on a host
\* it recognizes
HostPlatforms == {"Macos_arm64", "Linux_x86_64"}

ProtoDigest(hash, size) == [hash |-> hash, size_bytes |-> size]

\* decoded Action messages
GoodAction ==
  [command_digest |-> Some(ProtoDigest("bb", 9)),
   input_root_digest |-> Some(ProtoDigest("cc", 0)),
   timeout |-> Some([seconds |-> 1, nanos |-> 500])]

\* what the empty byte string decodes to
DefaultAction == [command_digest |-> None, input_root_digest |-> None, timeout |-> None]

DefaultCommand ==
  [arguments |-> <<>>, environment_variables |-> <<>>, working_directory |-> <<>>,
   output_files |-> <<>>, output_directories |-> <<>>]

DefaultActionResult == [action_digest |-> None]

\* decoded Command messages
GoodCommand ==
  [arguments |-> <<"/bin/echo", "hi">>,
   environment_variables |-> << <<"K", <<"v">> >> >>,
   working_directory |-> <<>>,
   output_files |-> << <<"out">> >>,
   output_directories |-> <<>>]

EscapingCommand ==
  [GoodCommand EXCEPT !.output_files = << <<"out">>, <<"..", "x">> >>]

\* Store entries
GarbageFile == FileEntry(None, None, None)

EmptyFile == FileEntry(Some(DefaultAction), Some(DefaultCommand), Some(DefaultActionResult))

ActionFile(a) == FileEntry(Some(a), None, None)

CommandFile(c) == FileEntry(None, Some(c), None)

ActionResultFile(r) == FileEntry(None, None, Some(r))

\* The Stores of the resolution runs: "aa" is where an Action may be, "bb" a
\* Command, "cc" an input root, "dd" an uncached action result.
ResolveStores ==
  { [fp \in Fingerprints |->
       CASE fp = "aa" -> a [] fp = "bb" -> b [] fp = "cc" -> c [] OTHER -> d]
    : a \in {AbsentEntry, GarbageFile, EmptyFile, ActionFile(GoodAction)},
      b \in {AbsentEntry, GarbageFile, CommandFile(GoodCommand), CommandFile(EscapingCommand)},
      c \in {AbsentEntry, DirectoryEntry},
      d \in {AbsentEntry, GarbageFile,
             ActionResultFile([action_digest |-> Some(ProtoDigest("AA", 7))])} }

\* a Store that holds an Action, its Command, its input root and an
\* uncached action result that names the Action
GoodStore ==
  [fp \in Fingerprints |->
     CASE fp = "aa" -> ActionFile(GoodAction)
       [] fp = "bb" -> CommandFile(GoodCommand)
       [] fp = "cc" -> DirectoryEntry
       [] OTHER -> ActionResultFile([action_digest |-> Some(ProtoDigest("AA", 7))])]

\* the command line with no input shape given
BaseArgs ==
  [command |->
     [argv |-> <<"/bin/echo", "hi">>,
      input_digest |-> None,
      input_digest_length |-> None,
      extra_platform_property |-> << <<"os", "linux">>, <<"pool">> >>,
      env |-> << <<"K", "v">>, <<"K", "w", "x">> >>,
      jdk |-> None,
      output_file_path |-> <<>>,
      output_directory_path |-> <<>>,
      working_directory |-> None,
      concurrency_available |-> None,
      cache_key_gen_version |-> None],
   action_digest |-> [action_digest |-> None, action_digest_length |-> None],
   buildbarn_url |-> None,
   run_under |-> None,
   materialize_output_to |-> None,
   server |-> None,
   cas_server |-> None,
   remote_instance_name |-> Some("main")]

WithShape(a, id, idl, ad, adl, url) ==
  [a EXCEPT !.command.input_digest = id,
            !.command.input_digest_length = idl,
            !.action_digest.action_digest = ad,
            !.action_digest.action_digest_length = adl,
            !.buildbarn_url = url]

WithPaths(a, files, dirs, wd) ==
  [a EXCEPT !.command.output_file_path = files,
            !.command.output_directory_path = dirs,
            !.command.working_directory = wd]

WithServers(a, server, cas_server) ==
  [a EXCEPT !.server = server, !.cas_server = cas_server]

\* n trailing '/' characters
Slashes(n) == [i \in 1..n |-> ""]

\* a URL the resolver accepts
GoodActionUrl == <<"http:", "", "host", "action", "main", "aa", "7">>

\* URLs of four segments or more, with or without a prefix and trailing slashes
LongUrls ==
  { pre \o <<kind, "main", fp, len>> \o Slashes(n)
    : pre \in {<<>>, <<"http:", "", "host">>},
      kind \in {"action", "uncached_action_result", "blobs"},
      fp \in {"aa", "dd", "zz"},
      len \in {"7", "07", "x"},
      n \in 0..MaxTrailingSlashes }

\* URLs of fewer than four segments once the trailing slashes are gone
ShortUrls ==
  { u \o Slashes(n)
    : u \in {<<"">>, <<"action">>, <<"action", "main", "aa">>,
             <<"uncached_action_result", "dd", "7">>},
      n \in 0..MaxTrailingSlashes }

Urls == LongUrls \cup ShortUrls

\* every way of giving or not giving each of the five shape flags
ShapeArgs ==
  { WithShape(BaseArgs, id, idl, ad, adl, url)
    : id \in {None, Some("cc")}, idl \in {None, Some(0)},
      ad \in {None, Some("aa")}, adl \in {None, Some(7)},
      url \in {None, Some(GoodActionUrl)} }

\* the result-URL shape alone
UrlArgs == { WithShape(BaseArgs, None, None, None, None, Some(u)) : u \in Urls }

\* the flat shape alone, with its paths
FlatArgs ==
  { WithPaths(WithShape(BaseArgs, Some("cc"), Some(0), None, None, None), files, dirs, wd)
    : files \in {<<>>, << <<"out">> >>, << <<"out">>, <<"..", "x">> >>},
      dirs \in {<<>>, << <<"/", "abs">> >>},
      wd \in {None, Some(<<"wd">>), Some(<<"..", "b">>)} }

ResolveArgs ==
  { WithServers(a, s, s)
    : a \in ShapeArgs \cup UrlArgs \cup FlatArgs, s \in {None, Some("exec:443")} }

----------------------------------------------------------------------------
(* Resolution on its own: make_request applied to every input *)

\* no Config is read in a run of process_executor
ConfigUntouched ==
  /\ config_files = <<>>
  /\ merged_config = None
  /\ option_id = None
  /\ list_edits = None

\* the parts of the state main has not set yet
Untouched ==
  /\ reqResult = None
  /\ storeLog = <<>>
  /\ request = None
  /\ metadata = None
  /\ constructed = <<>>
  /\ runner = None
  /\ runLog = <<>>
  /\ result = None
  /\ outputs = None
  /\ materialized = None
  /\ stdoutBuf = None
  /\ stderrBuf = None
  /\ out = <<>>
  /\ err = <<>>
  /\ exitStatus = None
  /\ panicMsg = None

ResolveInit ==
  /\ args \in ResolveArgs
  /\ host \in HostPlatforms
  /\ cas \in ResolveStores
  /\ overflow_checks = FALSE  \* no timeout of these Stores overflows
  /\ pc = "make_request"
  /\ Untouched
  /\ ConfigUntouched

\* a panic: main is aborted with the message, whatever else the step did
Panic(msg) ==
  /\ pc' = "panicked"
  /\ panicMsg' = Some(msg)

\* make_request(&store, &args).await: it returns, or panics and returns nothing
Resolve ==
  /\ pc = "make_request"
  /\ LET o == make_request(cas, args, host)
     IN  /\ storeLog' = o.log
         /\ IF IsPanic(o.res)
            THEN Panic(o.res.panic) /\ UNCHANGED reqResult
            ELSE /\ reqResult' = Some(o.res)
                 /\ pc' = "resolved"
                 /\ UNCHANGED panicMsg
  /\ UNCHANGED <<configVars, overflow_checks, args, host, cas, request, metadata, constructed, runner,
                 runLog, result, outputs, materialized, stdoutBuf, stderrBuf, out,
                 err, exitStatus>>

ResolveNext == Resolve

ResolveSpec == ResolveInit /\ [][ResolveNext]_vars

----------------------------------------------------------------------------
(* Resolution of Actions with every kind of timeout, in both kinds of build *)

\* the seconds (i64) and nanos (i32) of the timeouts: zero, small, the
\* largest nanos below a second, nanos above a second, and negative
TimeoutSeconds == {0, 1, 5, -1}

TimeoutNanos == {0, 500, 999999999, 1500000000, -1}

Timeouts ==
  {None} \cup {Some([seconds |-> sec, nanos |-> n]) : sec \in TimeoutSeconds, n \in TimeoutNanos}

\* a Store whose Action has the timeout t
TimeoutStore(t) == [GoodStore EXCEPT !["aa"] = ActionFile([GoodAction EXCEPT !.timeout = t])]

\* the shapes that resolve through the Action
TimeoutArgs ==
  { WithServers(a, srv, srv)
    : a \in { WithShape(BaseArgs, None, None, Some("aa"), Some(7), None),
              WithShape(BaseArgs, None, None, None, None, Some(GoodActionUrl)),
              WithShape(BaseArgs, None, None, None, None,
                        Some(<<"uncached_action_result", "main", "dd", "7">>)) },
      srv \in {None, Some("exec:443")} }

TimeoutInit ==
  /\ args \in TimeoutArgs
  /\ host \in HostPlatforms
  /\ cas \in {TimeoutStore(t) : t \in Timeouts}
  /\ overflow_checks \in BOOLEAN
  /\ pc = "make_request"
  /\ Untouched
  /\ ConfigUntouched

TimeoutSpec == TimeoutInit /\ [][ResolveNext]_vars

----------------------------------------------------------------------------
(* main: the inputs of a whole invocation *)

MainStores ==
  {GoodStore, [GoodStore EXCEPT !["bb"] = AbsentEntry], [GoodStore EXCEPT !["cc"] = AbsentEntry]}

MainShapes ==
  { WithShape(BaseArgs, Some("cc"), Some(0), None, None, None),
    WithPaths(WithShape(BaseArgs, Some("cc"), Some(0), None, None, None),
              <<>>, <<>>, Some(<<"..">>)),
    WithShape(BaseArgs, None, None, Some("aa"), Some(7), None),
    WithShape(BaseArgs, None, None, None, None, Some(GoodActionUrl)),
    WithShape(BaseArgs, None, None, None, None,
              Some(<<"uncached_action_result", "main", "dd", "7">>)),
    WithShape(BaseArgs, None, None, None, None, Some(<<"action", "main", "aa">>)),
    BaseArgs,
    WithShape(BaseArgs, Some("cc"), Some(0), Some("aa"), Some(7), None) }

MainArgs ==
  { [WithServers(a, s, c) EXCEPT !.run_under = r, !.materialize_output_to = m]
    : a \in MainShapes,
      s \in {None, Some("exec:443")},
      c \in {None, Some("cas:443")},
      r \in {None, Some("time -v"), Some("sh -c 'a b'"), Some("'unbalanced")},
      m \in {None, Some("/tmp/out")} }

\* the machine the whole invocations run on
MainHosts == {"Macos_arm64"}

\* the byte values stdout and stderr are made of: 'h', and the two bytes of
\* the UTF-8 encoding of U+00E9
ByteValues == {104, 195, 169}

ByteStrings == ByteStringsUpTo(ByteValues, MaxOutputLen)

\* the exit codes the process run by the runner ends with
ExitCodes == {0, 3}

\* shlex::split: the words of the string, or None when a quote is left open
ShlexSplit(str) ==
  CASE str = "time -v" -> Some(<<"time", "-v">>)
    [] str = "sh -c 'a b'" -> Some(<<"sh", "-c", "a b">>)
    [] str = "" -> Some(<<>>)
    [] OTHER -> None

\* whether b is a continuation byte
IsContinuation(b) == 128 <= b /\ b <= 191

\* String::from_utf8 accepts exactly the well-formed UTF-8 byte strings
RECURSIVE IsUtf8(_)
IsUtf8(bytes) ==
  IF bytes = <<>> THEN TRUE
  ELSE LET b == bytes[1]
           n == Len(bytes)
       IN  CASE b <= 127 -> IsUtf8(Tail(bytes))
             [] 194 <= b /\ b <= 223 ->
                  /\ n >= 2 /\ IsContinuation(bytes[2])
                  /\ IsUtf8(SubSeq(bytes, 3, n))
             [] 224 <= b /\ b <= 239 ->
                  /\ n >= 3 /\ IsContinuation(bytes[2]) /\ IsContinuation(bytes[3])
                  /\ (b = 224 => bytes[2] >= 160)
                  /\ (b = 237 => bytes[2] <= 159)
                  /\ IsUtf8(SubSeq(bytes, 4, n))
             [] 240 <= b /\ b <= 244 ->
                  /\ n >= 4 /\ IsContinuation(bytes[2]) /\ IsContinuation(bytes[3])
                  /\ IsContinuation(bytes[4])
                  /\ (b = 240 => bytes[2] >= 144)
                  /\ (b = 244 => bytes[2] <= 143)
                  /\ IsUtf8(SubSeq(bytes, 5, n))
             [] OTHER -> FALSE

\* String::from_utf8: the string with these bytes, or an error
StringFromUtf8(bytes) == IF IsUtf8(bytes) THEN Ok(bytes) ELSE Err("FromUtf8Error")

----------------------------------------------------------------------------
(* main, step by step *)

Init ==
  /\ args \in MainArgs
  /\ host \in MainHosts
  /\ cas \in MainStores
  /\ overflow_checks = FALSE  \* no timeout of these Stores overflows
  /\ pc = "make_store"
  /\ Untouched
  /\ ConfigUntouched

\* the Store is made: local only, or with the remote CAS
MakeStore ==
  /\ pc = "make_store"
  /\ \E made \in BOOLEAN :
       IF args.server /= None /\ args.cas_server = None
       THEN Panic("Can't specify --server without --cas-server")
       ELSE IF ~made
       THEN Panic("Error making store")
       ELSE pc' = "make_request" /\ UNCHANGED panicMsg
  /\ UNCHANGED <<configVars, overflow_checks, args, host, cas, reqResult, storeLog, request, metadata, constructed,
                 runner, runLog, result, outputs, materialized, stdoutBuf, stderrBuf,
                 out, err, exitStatus>>

\* MakeRequest with an error of make_request replaced by an empty request
MakeRequest_ContinuesOnError ==
  /\ pc = "make_request"
  /\ LET o == make_request(cas, args, host)
     IN  /\ reqResult' = Some(o.res)
         /\ storeLog' = o.log
         /\ request' = IF o.res.ok THEN Some(o.res.val.process) ELSE Some([argv |-> <<>>])
         /\ metadata' = IF o.res.ok THEN Some(o.res.val.metadata) ELSE None
         /\ pc' = "run_under"
         /\ UNCHANGED panicMsg
  /\ UNCHANGED <<configVars, overflow_checks, args, host, cas, constructed, runner, runLog, result, outputs,
                 materialized, stdoutBuf, stderrBuf, out, err, exitStatus>>

\* make_request(&store, &args).await.expect("Failed to construct request")
MakeRequest ==
  /\ pc = "make_request"
  /\ LET o == make_request(cas, args, host)
     IN  /\ reqResult' = IF IsPanic(o.res) THEN None ELSE Some(o.res)
         /\ storeLog' = o.log
         /\ IF IsPanic(o.res)
            THEN /\ Panic(o.res.panic)
                 /\ UNCHANGED <<request, metadata>>
            ELSE IF o.res.ok
            THEN /\ request' = Some(o.res.val.process)
                 /\ metadata' = Some(o.res.val.metadata)
                 /\ pc' = "run_under"
                 /\ UNCHANGED panicMsg
            ELSE /\ Panic("Failed to construct request")
                 /\ UNCHANGED <<request, metadata>>
  /\ UNCHANGED <<configVars, overflow_checks, args, host, cas, constructed, runner, runLog, result, outputs,
                 materialized, stdoutBuf, stderrBuf, out, err, exitStatus>>

\* ArgvUnder with the words chained after the argv
ArgvUnder_WordsLast(words, argv) == argv \o words

\* the argv after the run_under step
ArgvUnder(words, argv) == words \o argv

\* if let Some(run_under) = args.run_under { ... }
ApplyRunUnder ==
  /\ pc = "run_under"
  /\ IF args.run_under = None
     THEN pc' = "build_runner" /\ UNCHANGED <<request, panicMsg>>
     ELSE LET words == ShlexSplit(args.run_under[1])
          IN  IF words = None
              THEN Panic("Could not shlex --run-under arg") /\ UNCHANGED request
              ELSE /\ request' = Some([request[1] EXCEPT !.argv = ArgvUnder(words[1], @)])
                   /\ pc' = "build_runner"
                   /\ UNCHANGED panicMsg
  /\ UNCHANGED <<configVars, overflow_checks, args, host, cas, reqResult, storeLog, metadata, constructed, runner,
                 runLog, result, outputs, materialized, stdoutBuf, stderrBuf, out,
                 err, exitStatus>>

\* a runner: its kind and the runner it delegates to, if any
Runner(kind, inner) == [kind |-> kind, inner |-> inner]

\* the runners the Some(address) arm constructs, in order, and the one it boxes
RemotePipeline ==
  [constructed |-> <<"remote", "remote_cache">>,
   runner |-> Runner("remote_cache", Some(Runner("remote", None)))]

\* the runner the None arm constructs
LocalPipeline ==
  [constructed |-> <<"local">>,
   runner |-> Runner("local", None)]

\* BuildPipeline with the remote runner boxed as it is
BuildPipeline_RawRemote(server) ==
  IF server /= None
  THEN [constructed |-> <<"remote">>, runner |-> Runner("remote", None)]
  ELSE LocalPipeline

\* let runner = match args.server { ... }
BuildPipeline(server) == IF server /= None THEN RemotePipeline ELSE LocalPipeline

\* the construction of the runner; `failAt` is the constructor that fails
\* (0: none)
BuildRunner ==
  /\ pc = "build_runner"
  /\ LET p == BuildPipeline(args.server) IN
     \E failAt \in 0..Len(p.constructed) :
       IF failAt = 0
       THEN /\ constructed' = p.constructed
            /\ runner' = Some(p.runner)
            /\ pc' = "run"
            /\ UNCHANGED panicMsg
       ELSE /\ constructed' = SubSeq(p.constructed, 1, failAt - 1)
            /\ Panic("Failed to make command runner")
            /\ UNCHANGED runner
  /\ UNCHANGED <<configVars, overflow_checks, args, host, cas, reqResult, storeLog, request, metadata, runLog,
                 result, outputs, materialized, stdoutBuf, stderrBuf, out, err,
                 exitStatus>>

\* the digests of a result
StdoutDigest == Digest("50", 0)

StderrDigest == Digest("5e", 0)

OutputDirectoryDigest == Digest("0d", 0)

\* runner.run(Context::default(), workunit, request).await.expect("Error executing")
Run ==
  /\ pc = "run"
  /\ runLog' = Append(runLog, runner[1].kind)
  /\ \E succeeded \in BOOLEAN :
       IF succeeded
       THEN /\ \E code \in ExitCodes :
                 result' = Some([exit_code |-> code,
                                 stdout_digest |-> StdoutDigest,
                                 stderr_digest |-> StderrDigest,
                                 output_directory |-> OutputDirectoryDigest])
            /\ \E so, se \in {None} \cup {Some(b) : b \in ByteStrings} :
                 outputs' = Some([stdout |-> so, stderr |-> se])
            /\ pc' = "materialize"
            /\ UNCHANGED panicMsg
       ELSE /\ Panic("Error executing")
            /\ UNCHANGED <<result, outputs>>
  /\ UNCHANGED <<configVars, overflow_checks, args, host, cas, reqResult, storeLog, request, metadata, constructed,
                 runner, materialized, stdoutBuf, stderrBuf, out, err, exitStatus>>

\* Materialize with the result of materialize_directory ignored
Materialize_IgnoresFailure ==
  /\ pc = "materialize"
  /\ IF args.materialize_output_to = None
     THEN UNCHANGED materialized
     ELSE \E written \in BOOLEAN :
            materialized' = IF written THEN args.materialize_output_to ELSE None
  /\ pc' = "load_stdout"
  /\ UNCHANGED <<configVars, overflow_checks, args, host, cas, reqResult, storeLog, request, metadata, constructed,
                 runner, runLog, result, outputs, stdoutBuf, stderrBuf, out, err,
                 exitStatus, panicMsg>>

\* if let Some(output) = args.materialize_output_to { ... .unwrap() }
Materialize ==
  /\ pc = "materialize"
  /\ IF args.materialize_output_to = None
     THEN pc' = "load_stdout" /\ UNCHANGED <<materialized, panicMsg>>
     ELSE \E written \in BOOLEAN :
            IF written
            THEN /\ materialized' = args.materialize_output_to
                 /\ pc' = "load_stdout"
                 /\ UNCHANGED panicMsg
            ELSE /\ Panic("materialize_directory failed")
                 /\ UNCHANGED materialized
  /\ UNCHANGED <<configVars, overflow_checks, args, host, cas, reqResult, storeLog, request, metadata, constructed,
                 runner, runLog, result, outputs, stdoutBuf, stderrBuf, out, err,
                 exitStatus>>

\* store.load_file_bytes_with(result.stdout_digest, ...).await.unwrap()
LoadStdout ==
  /\ pc = "load_stdout"
  /\ IF outputs[1].stdout = None
     THEN Panic("stdout digest not in the Store") /\ UNCHANGED stdoutBuf
     ELSE /\ stdoutBuf' = outputs[1].stdout
          /\ pc' = "load_stderr"
          /\ UNCHANGED panicMsg
  /\ UNCHANGED <<configVars, overflow_checks, args, host, cas, reqResult, storeLog, request, metadata, constructed,
                 runner, runLog, result, outputs, materialized, stderrBuf, out, err,
                 exitStatus>>

\* store.load_file_bytes_with(result.stderr_digest, ...).await.unwrap()
LoadStderr ==
  /\ pc = "load_stderr"
  /\ IF outputs[1].stderr = None
     THEN Panic("stderr digest not in the Store") /\ UNCHANGED stderrBuf
     ELSE /\ stderrBuf' = outputs[1].stderr
          /\ pc' = "print"
          /\ UNCHANGED panicMsg
  /\ UNCHANGED <<configVars, overflow_checks, args, host, cas, reqResult, storeLog, request, metadata, constructed,
                 runner, runLog, result, outputs, materialized, stdoutBuf, out, err,
                 exitStatus>>

\* what the last three statements of main write and how they end: print! of
\* stdout, eprint! of stderr, exit(result.exit_code); each from_utf8(...).unwrap()
\* panics on bytes that are not UTF-8.
PrintOutcome(stdout, stderr, code) ==
  LET so == StringFromUtf8(stdout)
      se == StringFromUtf8(stderr)
  IN  IF ~so.ok
      THEN [out |-> <<>>, err |-> <<>>, exit |-> None,
            panic |-> Some("stdout is not UTF-8")]
      ELSE IF ~se.ok
      THEN [out |-> so.val, err |-> <<>>, exit |-> None,
            panic |-> Some("stderr is not UTF-8")]
      ELSE [out |-> so.val, err |-> se.val, exit |-> Some(code), panic |-> None]

PrintAndExit ==
  /\ pc = "print"
  /\ LET o == PrintOutcome(stdoutBuf[1], stderrBuf[1], result[1].exit_code)
     IN  /\ out' = out \o o.out
         /\ err' = err \o o.err
         /\ exitStatus' = o.exit
         /\ panicMsg' = o.panic
         /\ pc' = IF o.exit = None THEN "panicked" ELSE "exited"
  /\ UNCHANGED <<configVars, overflow_checks, args, host, cas, reqResult, storeLog, request, metadata, constructed,
                 runner, runLog, result, outputs, materialized, stdoutBuf, stderrBuf>>

Next ==
  \/ MakeStore
  \/ MakeRequest
  \/ ApplyRunUnder
  \/ BuildRunner
  \/ Run
  \/ Materialize
  \/ LoadStdout
  \/ LoadStderr
  \/ PrintAndExit

Spec == Init /\ [][Next]_vars

----------------------------------------------------------------------------
(* The options Config: TOML values and config files *)

\* A toml::Value: its type and what it holds. An array holds the sequence of
\* its items, a table the function from its keys to their values.
String(str) == [type |-> "string", str |-> str]

Integer(n) == [type |-> "integer", int |-> n]

Array(items) == [type |-> "array", items |-> items]

Table(map) == [type |-> "table", entries |-> map]

\* Table::new()
EmptyTable == [k \in {} |-> k]

\* Value::get(key) with a string key: the value under the key of a table
ValueGet(value, key) ==
  IF value.type = "table" /\ key \in DOMAIN value.entries
  THEN Some(value.entries[key])
  ELSE None

\* struct Config
Config(value) == [config |-> value]

\* Config::default
default == Config(Table(EmptyTable))

\* What the file system holds under a path: nothing that can be read, or a
\* text, which is a TOML document (Some(value)) or is not (None).
Unreadable == [kind |-> "unreadable"]

Text(toml) == [kind |-> "text", toml |-> toml]

\* the option values of lists.toml, one option for each kind of value
ListOptions ==
  [replace    |-> Array(<<String("a"), String("b")>>),
   none       |-> Array(<<>>),
   mixed      |-> Array(<<String("a"), Integer(1)>>),
   scalar     |-> String("a"),
   add        |-> Table([add |-> Array(<<String("a")>>)]),
   remove     |-> Table([remove |-> Array(<<String("b")>>)]),
   both       |-> Table([add |-> Array(<<String("a")>>), remove |-> Array(<<String("b")>>)]),
   empty      |-> Table(EmptyTable),
   extra      |-> Table([add |-> Array(<<String("a")>>), other |-> Array(<<String("c")>>)]),
   bad_add    |-> Table([add |-> String("a"), remove |-> Array(<<String("b")>>)]),
   bad_remove |-> Table([add |-> Array(<<String("a")>>),
                         remove |-> Array(<<String("b"), Integer(1)>>)])]

\* the config files of the file system
FileContents(path) ==
  CASE path = "missing.toml" -> Unreadable
    [] path = "broken.toml" -> Text(None)
    [] path = "empty.toml" -> Text(Some(Table(EmptyTable)))
    [] path = "lists.toml" -> Text(Some(Table([GLOBAL |-> Table(ListOptions)])))
    [] path = "override.toml" ->
         Text(Some(Table([GLOBAL |-> Table([replace |-> Table([add |-> Array(<<String("c")>>)])]),
                          test |-> Table([replace |-> Array(<<String("d")>>)])])))
    [] path = "scope.toml" ->
         Text(Some(Table([GLOBAL |-> String("not a table"),
                          test |-> Table([both |-> Table([remove |-> Array(<<String("b")>>)])])])))
    [] OTHER -> Unreadable

ConfigPaths ==
  {"missing.toml", "broken.toml", "empty.toml", "lists.toml", "override.toml", "scope.toml"}

\* the lists of config files Config::merged is given
ConfigFileLists == UNION {[1..k -> ConfigPaths] : k \in 0..MaxConfigFiles}

\* an OptionId: its scope() and its name("_", NameTransform::None)
OptionId(scope, name) == [scope |-> scope, name |-> name]

OptionIds ==
  { OptionId(scope, name)
    : scope \in {"GLOBAL", "test", "absent"},
      name \in DOMAIN ListOptions \cup {"unset"} }

----------------------------------------------------------------------------
(* The options Config: parse, merge, merged *)

\* the error strings of Config: the text and the file it is about
ConfigError(msg, file) == [msg |-> msg, file |-> file]

\* Config::parse
parse(file) ==
  LET contents == FileContents(file) IN
  IF contents.kind /= "text"
  THEN Err(ConfigError("Failed to read config file", file))
  ELSE IF contents.toml = None
  THEN Err(ConfigError("Failed to parse config file", file))
  ELSE IF contents.toml[1].type = "table"
  THEN Ok(Config(contents.toml[1]))
  ELSE Err(ConfigError("Expected the config file to contain a table", file))

\* merge with the entries of self kept where both have the key
merge_KeepsSelf(self, other) ==
  LET mine   == self.config.entries
      theirs == other.config.entries
  IN  Config(Table([k \in DOMAIN mine \cup DOMAIN theirs |->
                      IF k \in DOMAIN mine THEN mine[k] ELSE theirs[k]]))

\* Config::merge: self's table extended with other's entries, an entry of
\* other replacing the entry of self with the same key
merge(self, other) ==
  LET mine   == self.config.entries
      theirs == other.config.entries
  IN  Config(Table([k \in DOMAIN mine \cup DOMAIN theirs |->
                      IF k \in DOMAIN theirs THEN theirs[k] ELSE mine[k]]))

\* the closure of the fold of Config::merged
MergedStep(acc, parse_result) ==
  IF ~acc.ok THEN acc
  ELSE IF ~parse_result.ok THEN parse_result
  ELSE Ok(merge(acc.val, parse_result.val))

\* the fold of Config::merged over the files left, each parsed in its turn
RECURSIVE MergedFold(_, _)
MergedFold(acc, paths) ==
  IF paths = <<>>
  THEN acc
  ELSE MergedFold(MergedStep(acc, parse(Head(paths))), Tail(paths))

\* Config::merged
merged(paths) == MergedFold(Ok(default), paths)

----------------------------------------------------------------------------
(* The options Config: string lists *)

\* a ListEdit
ListEdit(action, items) == [action |-> action, items |-> items]

\* the error strings of the list options: the text, the name of the option
\* (with its .add or .remove) and the value the text shows
ListError(msg, name, value) == [msg |-> msg, name |-> name, value |-> value]

\* Config::option_name
option_name(id) == id.name

\* Config::extract_string_list
extract_string_list(name, value) ==
  IF value.type = "array"
  THEN LET array == value.items
           bad == {i \in 1..Len(array) : array[i].type /= "string"}
       IN  IF bad = {}
           THEN Ok([i \in 1..Len(array) |-> array[i].str])
           ELSE LET first == CHOOSE i \in bad : \A j \in bad : i <= j
                IN  Err(ListError("Expected to be an array of strings but given a non string item",
                                  name, array[first]))
  ELSE Err(ListError("Expected to be an array", name, value))

\* TableEdits with the Remove edit pushed before the Add edit
TableEdits_RemoveFirst(name, sub_table) ==
  LET add    == IF "add" \in DOMAIN sub_table
                THEN extract_string_list(<<name, "add">>, sub_table["add"])
                ELSE Ok(<<>>)
      remove == IF "remove" \in DOMAIN sub_table
                THEN extract_string_list(<<name, "remove">>, sub_table["remove"])
                ELSE Ok(<<>>)
  IN  IF ~add.ok THEN add
      ELSE IF ~remove.ok THEN remove
      ELSE Ok((IF "remove" \in DOMAIN sub_table
               THEN <<ListEdit("Remove", remove.val)>> ELSE <<>>)
              \o (IF "add" \in DOMAIN sub_table THEN <<ListEdit("Add", add.val)>> ELSE <<>>))

\* the list_edits pushed for a table: Add if there is an 'add', then Remove
\* if there is a 'remove'; the first list that cannot be extracted is the error
TableEdits(name, sub_table) ==
  LET add    == IF "add" \in DOMAIN sub_table
                THEN extract_string_list(<<name, "add">>, sub_table["add"])
                ELSE Ok(<<>>)
      remove == IF "remove" \in DOMAIN sub_table
                THEN extract_string_list(<<name, "remove">>, sub_table["remove"])
                ELSE Ok(<<>>)
  IN  IF ~add.ok THEN add
      ELSE IF ~remove.ok THEN remove
      ELSE Ok((IF "add" \in DOMAIN sub_table THEN <<ListEdit("Add", add.val)>> ELSE <<>>)
              \o (IF "remove" \in DOMAIN sub_table
                  THEN <<ListEdit("Remove", remove.val)>> ELSE <<>>))

\* Config::get_string_list
get_string_list(self, id) ==
  LET table == ValueGet(self.config, id.scope)
      name  == option_name(id)
      value == IF table = None THEN None ELSE ValueGet(table[1], name)
  IN
  IF value = None THEN Ok(None)
  ELSE IF value[1].type = "table"
  THEN LET sub_table == value[1].entries IN
       IF sub_table = EmptyTable \/ ~(DOMAIN sub_table \subseteq {"add", "remove"})
       THEN Err(ListError("Expected to contain an 'add' element, a 'remove' element or both",
                          <<name>>, value[1]))
       ELSE LET edits == TableEdits(name, sub_table) IN
            IF ~edits.ok THEN edits
            ELSE IF edits.val = <<>> THEN Ok(None) ELSE Ok(Some(edits.val))
  ELSE LET items == extract_string_list(<<name>>, value[1]) IN
       IF ~items.ok THEN items ELSE Ok(Some(<<ListEdit("Replace", items.val)>>))

----------------------------------------------------------------------------
(* The options Config: a merge of config files, then the reading of a list *)

\* process_executor is not running
ExecutorIdle ==
  /\ args = BaseArgs
  /\ host = "Linux_x86_64"
  /\ cas = GoodStore
  /\ overflow_checks = FALSE
  /\ Untouched

ConfigInit ==
  /\ config_files \in ConfigFileLists
  /\ merged_config = None
  /\ option_id = None
  /\ list_edits = None
  /\ pc = "config"
  /\ ExecutorIdle

\* Config::merged(&config_files)
Merged ==
  /\ pc = "config"
  /\ merged_config' = Some(merged(config_files))
  /\ pc' = "merged"
  /\ UNCHANGED <<executorVars, config_files, option_id, list_edits>>

\* config.get_string_list(&id) on the merged Config
GetStringList ==
  /\ pc = "merged"
  /\ merged_config[1].ok
  /\ \E id \in OptionIds :
       /\ option_id' = Some(id)
       /\ list_edits' = Some(get_string_list(merged_config[1].val, id))
  /\ pc' = "queried"
  /\ UNCHANGED <<executorVars, config_files, merged_config>>

ConfigNext == Merged \/ GetStringList

ConfigSpec == ConfigInit /\ [][ConfigNext]_vars

----------------------------------------------------------------------------
(* Properties of the resolution *)

\* make_request has returned
Resolved == reqResult /= None

\* which input shapes the command line gives (a shape is given when any of
\* its flags is)
FlatGiven(a) == a.command.input_digest /= None \/ a.command.input_digest_length /= None

ActionDigestGiven(a) ==
  a.action_digest.action_digest /= None \/ a.action_digest.action_digest_length /= None

UrlGiven(a) == a.buildbarn_url /= None

ShapesGiven(a) ==
  (IF FlatGiven(a) THEN 1 ELSE 0) + (IF ActionDigestGiven(a) THEN 1 ELSE 0)
  + (IF UrlGiven(a) THEN 1 ELSE 0)

\* exactly this shape is given, with all of its flags
OnlyFlat(a) ==
  /\ a.command.input_digest /= None /\ a.command.input_digest_length /= None
  /\ ~ActionDigestGiven(a) /\ ~UrlGiven(a)

OnlyActionDigest(a) ==
  /\ a.action_digest.action_digest /= None /\ a.action_digest.action_digest_length /= None
  /\ ~FlatGiven(a) /\ ~UrlGiven(a)

OnlyUrl(a) == UrlGiven(a) /\ ~FlatGiven(a) /\ ~ActionDigestGiven(a)

ShapeErrors ==
  {"Must specify either action input digest or action digest or buildbarn URL",
   "Unsupported combination of arguments - can only set one of action digest or all other action-specifying flags"}

\* C1: when none or more than one of the three input shapes is given,
\* make_request returns an input-shape error (a value, main has not
\* panicked inside it) and has performed no Store access.
C1_AmbiguousInputIsErrorWithoutStoreAccess ==
  (Resolved /\ ShapesGiven(args) /= 1) =>
    /\ ~reqResult[1].ok
    /\ reqResult[1].err.msg \in ShapeErrors
    /\ storeLog = <<>>

\* two complete shapes at once, with a Store that holds all they name
C1_Witness ==
  /\ Resolved
  /\ ShapesGiven(args) = 2
  /\ args.command.input_digest /= None /\ args.command.input_digest_length /= None
  /\ args.buildbarn_url /= None
  /\ cas["cc"].type = "directory"
  /\ cas["aa"] = ActionFile(GoodAction)
  /\ ~reqResult[1].ok

\* the indices of the accesses of one kind in a log
AccessesOf(log, what) == {i \in 1..Len(log) : log[i].what = what}

\* the Action access at index j succeeded and its bytes decode to an Action
\* that names `digest` as its field `field`
ActionLoadedNaming(log, j, field, digest) ==
  /\ log[j].what = "Action" /\ log[j].ok
  /\ cas[log[j].digest.fingerprint].type = "file"
  /\ LET a == ActionDecode(cas[log[j].digest.fingerprint])
     IN  /\ a.ok
         /\ RequireDigest(a.val[field]) = Ok(digest)

\* C3: in a resolution of the Action-digest shape the first access is the
\* load of the Action; the Command and the input root are loaded only after
\* an Action that loaded, decoded and names them; a request is returned only
\* when the last access is the successful load of its input root, which the
\* Store holds as a directory; and no request is returned when a load failed.
C3_ActionThenCommandThenInputRoot ==
  (Resolved /\ OnlyActionDigest(args)) =>
    /\ Len(storeLog) >= 1
    /\ storeLog[1].what = "Action"
    /\ storeLog[1].digest = Digest(args.action_digest.action_digest[1],
                                   args.action_digest.action_digest_length[1])
    /\ \A i \in AccessesOf(storeLog, "Command") :
         \E j \in 1..(i - 1) : ActionLoadedNaming(storeLog, j, "command_digest", storeLog[i].digest)
    /\ \A i \in AccessesOf(storeLog, "Directory") :
         /\ \E j \in 1..(i - 1) :
              ActionLoadedNaming(storeLog, j, "input_root_digest", storeLog[i].digest)
         /\ \E j \in 1..(i - 1) : storeLog[j].what = "Command" /\ storeLog[j].ok
    /\ reqResult[1].ok =>
         /\ Len(storeLog) = 3
         /\ storeLog[3] = Access("load_directory", "Directory",
                                 reqResult[1].val.process.input_digests, TRUE)
         /\ cas[reqResult[1].val.process.input_digests.fingerprint].type = "directory"
    /\ (\E i \in 1..Len(storeLog) : ~storeLog[i].ok) => ~reqResult[1].ok

\* an Action-digest resolution that went through all three loads and returned
C3_Witness ==
  /\ Resolved /\ OnlyActionDigest(args)
  /\ reqResult[1].ok
  /\ Len(storeLog) = 3

\* an Action-digest resolution whose input root the Store does not hold
C3_WitnessMissingRoot ==
  /\ Resolved /\ OnlyActionDigest(args)
  /\ Len(storeLog) = 3 /\ ~storeLog[3].ok
  /\ ~reqResult[1].ok

\* the four segments the resolver looks at
InterestingParts(url) ==
  LET p == TrimEndSlashes(url) IN SubSeq(p, Len(p) - 3, Len(p))

\* the URL of kind "action" that carries the digest d, for the same instance
ActionUrlFor(instance, d) ==
  <<"action", instance, ToHex(d.fingerprint), UsizeToString(d.size_bytes)>>

\* the URL is of kind "uncached_action_result" and its record is in the
\* Store and decodes to an action digest
DecodesToActionDigest(url) ==
  /\ Len(TrimEndSlashes(url)) >= 4
  /\ LET parts == InterestingParts(url)
         fp == FromHexString(parts[3])
     IN  /\ parts[1] = "uncached_action_result"
         /\ fp.ok
         /\ ParseUsize(parts[4]).ok
         /\ cas[fp.val].type = "file"
         /\ cas[fp.val].result /= None
         /\ RequireDigest(cas[fp.val].result[1].action_digest).ok

DecodedActionDigest(url) ==
  RequireDigest(cas[FromHexString(InterestingParts(url)[3]).val].result[1].action_digest).val

\* C5: a result URL of kind uncached_action_result whose record decodes to
\* the action digest D resolves to what the URL of kind action carrying D's
\* fingerprint and length resolves to, for the same Store, strategy, platform
\* and instance segment.
C5_UncachedResultUrlEqualsActionUrl ==
  (Resolved /\ OnlyUrl(args) /\ DecodesToActionDigest(args.buildbarn_url[1])) =>
    LET url == args.buildbarn_url[1]
        direct == ActionUrlFor(InterestingParts(url)[2], DecodedActionDigest(url))
    IN  reqResult[1] =
          extract_request_from_buildbarn_url(cas, direct, ExecutionStrategy(args),
                                             ExecutionPlatform(args, host)).res

\* an uncached_action_result URL that resolved to a request
C5_Witness ==
  /\ Resolved /\ OnlyUrl(args)
  /\ DecodesToActionDigest(args.buildbarn_url[1])
  /\ reqResult[1].ok
  /\ Len(storeLog) = 4

UrlErrors ==
  {"Buildbarn URL didn't have enough parts",
   "Wrong kind in buildbarn URL; wanted action or uncached_action_result",
   "Couldn't parse action digest length as a number",
   "Couldn't parse uncached action digest result length as a number",
   "Not a valid hex fingerprint"}

TooFewSegments(url) == Len(TrimEndSlashes(url)) < 4

UnknownKind(url) ==
  ~TooFewSegments(url) /\ InterestingParts(url)[1] \notin {"action", "uncached_action_result"}

UnparseableLength(url) ==
  ~TooFewSegments(url) /\ ~ParseUsize(InterestingParts(url)[4]).ok

\* C6: a result URL with fewer than four segments, an unrecognized kind or a
\* length that does not parse resolves to a malformed-URL error, with no
\* Store access.
C6_MalformedUrlIsErrorWithoutStoreAccess ==
  (/\ Resolved /\ OnlyUrl(args)
   /\ \/ TooFewSegments(args.buildbarn_url[1])
      \/ UnknownKind(args.buildbarn_url[1])
      \/ UnparseableLength(args.buildbarn_url[1])) =>
    /\ ~reqResult[1].ok
    /\ reqResult[1].err.msg \in UrlErrors
    /\ storeLog = <<>>

\* a URL of a known kind with a good fingerprint, a record in the Store and a
\* length that does not parse
C6_Witness ==
  /\ Resolved /\ OnlyUrl(args)
  /\ ~TooFewSegments(args.buildbarn_url[1])
  /\ InterestingParts(args.buildbarn_url[1]) = <<"uncached_action_result", "main", "dd", "x">>
  /\ cas["dd"].type = "file"
  /\ ~reqResult[1].ok

\* some declared output path or the working directory is not a relative
\* path contained in the sandbox root
SomePathEscapes(a) ==
  \/ \E i \in 1..Len(a.command.output_file_path) :
       ~IsRelativeAndContained(a.command.output_file_path[i])
  \/ \E i \in 1..Len(a.command.output_directory_path) :
       ~IsRelativeAndContained(a.command.output_directory_path[i])
  \/ /\ a.command.working_directory /= None
     /\ ~IsRelativeAndContained(a.command.working_directory[1])

\* C7: a flat-shape request with an output file path, output directory path
\* or working directory that has a parent-directory segment or is absolute
\* is rejected with an error before InputDigests is built against the Store.
C7_EscapingPathRejectedBeforeDigestResolution ==
  (Resolved /\ OnlyFlat(args) /\ SomePathEscapes(args)) =>
    /\ ~reqResult[1].ok
    /\ storeLog = <<>>

\* only the working directory escapes, and the Store holds the input root
C7_Witness ==
  /\ Resolved /\ OnlyFlat(args)
  /\ args.command.working_directory = Some(<<"..", "b">>)
  /\ args.command.output_file_path = << <<"out">> >>
  /\ args.command.output_directory_path = <<>>
  /\ cas["cc"].type = "directory"
  /\ ~reqResult[1].ok

\* the Action under the command line's action digest is in the Store and
\* decodes, and names a Command digest
ActionNamesCommand ==
  /\ OnlyActionDigest(args)
  /\ cas[args.action_digest.action_digest[1]].type = "file"
  /\ cas[args.action_digest.action_digest[1]].action /= None
  /\ RequireDigest(cas[args.action_digest.action_digest[1]].action[1].command_digest).ok

NamedCommandDigest ==
  RequireDigest(cas[args.action_digest.action_digest[1]].action[1].command_digest).val

\* C8: when the Action is present and decodes but the Store holds no file
\* under its Command digest, the resolution fails with the Store's
\* missing-digest error naming the Command digest; the Command decode error
\* is returned only when the Command's bytes are in the Store and do not
\* decode.
C8_MissingCommandIsStoreMiss ==
  (Resolved /\ ActionNamesCommand) =>
    /\ cas[NamedCommandDigest.fingerprint].type /= "file" =>
         /\ ~reqResult[1].ok
         /\ reqResult[1].err.cause = "MissingDigest"
         /\ reqResult[1].err.msg = "Could not load command proto from CAS"
         /\ reqResult[1].err.digest = NamedCommandDigest
    /\ (~reqResult[1].ok /\ reqResult[1].err.cause = "DecodeError") =>
         /\ cas[NamedCommandDigest.fingerprint].type = "file"
         /\ ~CommandDecode(cas[NamedCommandDigest.fingerprint]).ok

\* the Command is absent and the resolution has failed
C8_Witness ==
  /\ Resolved /\ ActionNamesCommand
  /\ cas[NamedCommandDigest.fingerprint] = AbsentEntry
  /\ ~reqResult[1].ok

\* the Command is present and does not decode
C8_WitnessDecode ==
  /\ Resolved /\ ActionNamesCommand
  /\ cas[NamedCommandDigest.fingerprint] = GarbageFile
  /\ reqResult[1].err.cause = "DecodeError"

----------------------------------------------------------------------------
(* Properties of the whole invocation *)

\* C2: with a server configured the boxed runner, the one main calls run on,
\* is the remote-cache runner, and the remote-execution runner is its inner
\* delegate; with none it is the local runner, and no cache or remote runner
\* has been constructed. The runners of the two pipelines are never both
\* constructed.
C2_CacheOutermostRemoteInnermost ==
  /\ runner /= None =>
       IF args.server /= None
       THEN /\ runner[1].kind = "remote_cache"
            /\ runner[1].inner = Some(Runner("remote", None))
            /\ constructed = <<"remote", "remote_cache">>
       ELSE /\ runner[1] = Runner("local", None)
            /\ constructed = <<"local">>
  /\ \A i \in 1..Len(runLog) :
       /\ runLog[i] = runner[1].kind
       /\ runLog[i] /= "remote"
  /\ \A i, j \in 1..Len(constructed) :
       ~(constructed[i] = "local" /\ constructed[j] \in {"remote", "remote_cache"})
  /\ args.server = None => \A i \in 1..Len(constructed) : constructed[i] = "local"

\* the remote pipeline has received the request
C2_Witness ==
  /\ args.server /= None
  /\ runLog = <<"remote_cache">>
  /\ result /= None

\* C4: when make_request has returned an error, no runner has been
\* constructed and no run has been entered, in this state and so in every
\* later one.
C4_ResolutionErrorBeforeAnyRunner ==
  (Resolved /\ ~reqResult[1].ok) =>
    /\ constructed = <<>>
    /\ runner = None
    /\ runLog = <<>>
    /\ result = None
    /\ pc = "panicked"

\* a resolution that failed on a Store miss
C4_Witness ==
  /\ Resolved
  /\ ~reqResult[1].ok
  /\ reqResult[1].err.cause = "MissingDigest"
  /\ pc = "panicked"

\* the positions of main that come before it is done with each later step
BeforeMaterializeDone == {"make_store", "make_request", "run_under", "build_runner", "run", "materialize"}

BeforeStdoutLoaded == BeforeMaterializeDone \cup {"load_stdout"}

BeforeStderrLoaded == BeforeStdoutLoaded \cup {"load_stderr"}

\* C9: the process has exited with a code only when that code is the
\* result's, the runner succeeded, the requested materialization was done and
\* both digests were resolved; after a runner error, a materialization error
\* or a digest that did not resolve, main has panicked and has not exited.
C9_ExitCodeOnlyAfterFullSuccess ==
  /\ exitStatus /= None =>
       /\ pc = "exited"
       /\ result /= None
       /\ exitStatus = Some(result[1].exit_code)
       /\ materialized = args.materialize_output_to
       /\ outputs[1].stdout /= None /\ stdoutBuf = outputs[1].stdout
       /\ outputs[1].stderr /= None /\ stderrBuf = outputs[1].stderr
  /\ pc = "exited" => exitStatus /= None
  /\ pc = "panicked" => exitStatus = None
  /\ (runLog /= <<>> /\ result = None) => pc = "panicked"
  /\ (result /= None /\ pc \notin BeforeMaterializeDone
        /\ materialized /= args.materialize_output_to) => pc = "panicked"
  /\ (result /= None /\ pc \notin BeforeStdoutLoaded /\ outputs[1].stdout = None)
       => pc = "panicked"
  /\ (result /= None /\ pc \notin BeforeStderrLoaded /\ outputs[1].stderr = None)
       => pc = "panicked"

\* an exit with a non-zero code after a materialization
C9_Witness ==
  /\ pc = "exited"
  /\ exitStatus = Some(3)
  /\ materialized /= None

\* a stderr digest that did not resolve, after stdout did
C9_WitnessAbort ==
  /\ pc = "panicked"
  /\ result /= None
  /\ stdoutBuf /= None
  /\ outputs[1].stderr = None

\* C10: once the run has succeeded and both digests are resolved, the
\* process exits with the result's exit code, having written the bytes of
\* stdout to its standard output and those of stderr to its standard error,
\* whatever the bytes are.
C10_OutputBytesWrittenThenExit ==
  (stdoutBuf /= None /\ stderrBuf /= None /\ pc /= "print") =>
    /\ pc = "exited"
    /\ out = stdoutBuf[1]
    /\ err = stderrBuf[1]
    /\ exitStatus = Some(result[1].exit_code)

----------------------------------------------------------------------------
(* C11: the timeout of the request resolved from an Action *)

\* the Action the Store holds under "aa"
StoredAction == cas["aa"].action[1]

\* the duration of s seconds + n nanoseconds, when it is not negative: whole
\* seconds and the nanoseconds below one second
ExactDuration(s, n) ==
  [secs |-> NatBytes(s + (n \div NanosPerSec), 8), nanos |-> n % NanosPerSec]

\* whether s seconds + n nanoseconds is a duration at all
IsDuration(s, n) == s + (n \div NanosPerSec) >= 0

\* the resolution of the action-digest shape has ended
ActionShapeEnded == OnlyActionDigest(args) /\ pc \in {"resolved", "panicked"}

\* C11: in the action-digest shape, the resolved request's timeout is
\* exactly seconds + nanos of the Action's timeout, whatever the seconds and
\* nanos are, and there is no timeout when the Action has none.
C11_TimeoutIsSecondsPlusNanos ==
  ActionShapeEnded =>
    /\ pc = "resolved"
    /\ reqResult[1].ok
    /\ LET t == StoredAction.timeout
           resolved == reqResult[1].val.process.timeout
       IN  IF t = None
           THEN resolved = None
           ELSE /\ IsDuration(t[1].seconds, t[1].nanos)
                /\ resolved = Some(ExactDuration(t[1].seconds, t[1].nanos))

\* the same for the timeouts that are not negative in either part, which
\* the conversion gets right in both kinds of build
TimeoutExactWhenNotNegative ==
  ActionShapeEnded =>
    LET t == StoredAction.timeout IN
    (t = None \/ (t[1].seconds >= 0 /\ t[1].nanos >= 0)) =>
      /\ pc = "resolved"
      /\ reqResult[1].ok
      /\ reqResult[1].val.process.timeout
           = IF t = None THEN None
             ELSE Some(ExactDuration(t[1].seconds, t[1].nanos))

\* five seconds resolve to exactly five seconds
FiveSecondsResolved ==
  /\ ActionShapeEnded
  /\ StoredAction.timeout = Some([seconds |-> 5, nanos |-> 0])
  /\ reqResult[1].val.process.timeout = Some([secs |-> <<5, 0, 0, 0, 0, 0, 0, 0>>, nanos |-> 0])

----------------------------------------------------------------------------
(* C12: the strategy and the platform of the resolved request *)

\* the request make_request returned
ResolvedOk == Resolved /\ reqResult[1].ok

ResolvedProcess == reqResult[1].val.process

ServerGiven == args.server /= None

\* the pairs of the extra platform properties: of each key=value string the
\* text before the first '=' and the text after it
CarriesExtraPlatformProperties(strategy) ==
  LET kvs == args.command.extra_platform_property IN
  /\ Len(strategy.properties) = Len(kvs)
  /\ \A i \in 1..Len(kvs) :
       /\ strategy.properties[i][1] = kvs[i][1]
       /\ strategy.properties[i][2] = (IF Len(kvs[i]) = 1 THEN <<"">> ELSE Tail(kvs[i]))

\* C12: whatever the input shape, the resolved request has the strategy
\* RemoteExecution with the extra platform properties and the remote
\* worker's platform when a server is given, and the strategy Local and the
\* host's platform when none is.
C12_StrategyAndPlatformFollowServer ==
  ResolvedOk =>
    IF ServerGiven
    THEN /\ ResolvedProcess.execution_strategy.kind = "RemoteExecution"
         /\ CarriesExtraPlatformProperties(ResolvedProcess.execution_strategy)
         /\ ResolvedProcess.platform = "Linux_x86_64"
    ELSE /\ ResolvedProcess.execution_strategy.kind = "Local"
         /\ ResolvedProcess.platform = host

\* a request resolved from a URL for a server, on a host that is not the
\* remote worker's platform
C12_Witness ==
  /\ ResolvedOk
  /\ OnlyUrl(args)
  /\ ServerGiven
  /\ host = "Macos_arm64"
  /\ Len(ResolvedProcess.execution_strategy.properties) = 2

\* each shape resolves with a server and without
C12_WitnessFlatRemote == ResolvedOk /\ OnlyFlat(args) /\ ServerGiven /\ host = "Macos_arm64"

C12_WitnessActionLocal == ResolvedOk /\ OnlyActionDigest(args) /\ ~ServerGiven

----------------------------------------------------------------------------
(* C13: the argument vector under run_under *)

\* the runner was handed the request main holds
RunEntered == runLog /= <<>>

\* the argument vector make_request resolved
ResolvedArgv == reqResult[1].val.process.argv

\* the tokens of the run_under string
RunUnderTokens == ShlexSplit(args.run_under[1])[1]

\* C13: the argument vector handed to the runner is the tokens of run_under
\* followed by the resolved argument vector, and the resolved argument
\* vector itself when run_under is not given, whatever the input shape.
C13_RunUnderTokensThenResolvedArgv ==
  RunEntered =>
    request[1].argv = IF args.run_under = None
                      THEN ResolvedArgv
                      ELSE RunUnderTokens \o ResolvedArgv

\* the runner was handed the Command's arguments behind the two tokens of
\* run_under, in the action-digest shape
C13_Witness ==
  /\ RunEntered
  /\ OnlyActionDigest(args)
  /\ args.run_under = Some("time -v")
  /\ request[1].argv = <<"time", "-v", "/bin/echo", "hi">>

\* a quoted token stays one argument, in the flat shape
C13_WitnessQuoted ==
  /\ RunEntered
  /\ OnlyFlat(args)
  /\ request[1].argv = <<"sh", "-c", "a b", "/bin/echo", "hi">>

\* without run_under the resolved argument vector is handed on, in the URL shape
C13_WitnessNoRunUnder ==
  /\ RunEntered
  /\ OnlyUrl(args)
  /\ args.run_under = None
  /\ request[1].argv = <<"/bin/echo", "hi">>

----------------------------------------------------------------------------
(* C14: Config::merge and Config::merged *)

\* Config::merged has returned
MergedReturned == merged_config /= None

\* what each of the config files parses to
ParsedFiles == [i \in 1..Len(config_files) |-> parse(config_files[i])]

\* the files that fail to parse
FailingFiles == {i \in 1..Len(config_files) : ~ParsedFiles[i].ok}

\* the Configs of the files that parse
ParsedConfigs == {ParsedFiles[i].val : i \in (1..Len(config_files)) \ FailingFiles}

\* the Config merged returned, if it returned one
MergedConfigs == IF merged_config[1].ok THEN {merged_config[1].val} ELSE {}

\* the top-level table of a Config
TopLevel(c) == c.config.entries

\* m has the keys of a and of b, b's value under each key of b and a's value
\* under every other
IsUnionOtherWins(m, a, b) ==
  /\ DOMAIN TopLevel(m) = DOMAIN TopLevel(a) \cup DOMAIN TopLevel(b)
  /\ \A k \in DOMAIN TopLevel(b) : TopLevel(m)[k] = TopLevel(b)[k]
  /\ \A k \in DOMAIN TopLevel(a) \ DOMAIN TopLevel(b) : TopLevel(m)[k] = TopLevel(a)[k]

\* the left-to-right fold of merge over the first n files, from the empty Config
RECURSIVE LeftFold(_)
LeftFold(n) == IF n = 0 THEN default ELSE merge(LeftFold(n - 1), ParsedFiles[n].val)

\* the last file that has the top-level key k
LastWith(k) ==
  CHOOSE i \in 1..Len(config_files) :
    /\ k \in DOMAIN TopLevel(ParsedFiles[i].val)
    /\ \A j \in 1..Len(config_files) : k \in DOMAIN TopLevel(ParsedFiles[j].val) => j <= i

\* C14: merge gives the union of the keys with the second Config's whole
\* value under each of its keys; the empty Config is its identity on both
\* sides; merge is associative; merged is the left-to-right fold of merge
\* over the parsed files from the empty Config (so each key has the value of
\* the last file that has it), or the error of the first file that does not
\* parse.
C14_MergeIsUnionOtherWinsAndMergedIsItsFold ==
  MergedReturned =>
    /\ \A a, b \in ParsedConfigs \cup MergedConfigs : IsUnionOtherWins(merge(a, b), a, b)
    /\ \A a \in ParsedConfigs : merge(default, a) = a /\ merge(a, default) = a
    /\ \A a, b, c \in ParsedConfigs : merge(merge(a, b), c) = merge(a, merge(b, c))
    /\ IF FailingFiles = {}
       THEN /\ merged_config[1] = Ok(LeftFold(Len(config_files)))
            /\ DOMAIN TopLevel(merged_config[1].val)
                 = UNION {DOMAIN TopLevel(c) : c \in ParsedConfigs}
            /\ \A k \in DOMAIN TopLevel(merged_config[1].val) :
                 TopLevel(merged_config[1].val)[k] = TopLevel(ParsedFiles[LastWith(k)].val)[k]
       ELSE LET first == CHOOSE i \in FailingFiles : \A j \in FailingFiles : i <= j
            IN  /\ ~merged_config[1].ok
                /\ merged_config[1] = ParsedFiles[first]
                /\ merged_config[1].err.file = config_files[first]

\* lists.toml then override.toml: the merged GLOBAL is override.toml's whole
\* table, with none of the options of lists.toml, and test is there too
C14_Witness ==
  /\ MergedReturned
  /\ config_files = <<"lists.toml", "override.toml">>
  /\ merged_config[1].ok
  /\ DOMAIN TopLevel(merged_config[1].val) = {"GLOBAL", "test"}
  /\ DOMAIN TopLevel(merged_config[1].val)["GLOBAL"].entries = {"replace"}

\* the error is that of the first file that does not parse
C14_WitnessError ==
  /\ MergedReturned
  /\ config_files = <<"lists.toml", "broken.toml", "missing.toml">>
  /\ merged_config[1] = Err(ConfigError("Failed to parse config file", "broken.toml"))

----------------------------------------------------------------------------
(* C15: Config::get_string_list *)

\* get_string_list has returned
Queried == list_edits /= None

\* the value of the asked option in the merged Config, if there is one
AskedValue ==
  LET top == TopLevel(merged_config[1].val)
      id  == option_id[1]
  IN  IF id.scope \notin DOMAIN top THEN None
      ELSE IF top[id.scope].type /= "table" THEN None
      ELSE IF id.name \notin DOMAIN top[id.scope].entries THEN None
      ELSE Some(top[id.scope].entries[id.name])

IsStringArray(v) ==
  v.type = "array" /\ \A i \in 1..Len(v.items) : v.items[i].type = "string"

StringsOf(v) == [i \in 1..Len(v.items) |-> v.items[i].str]

\* the edits of a table with 'add' and 'remove' only: Add, then Remove
AddThenRemove(t) ==
  (IF "add" \in DOMAIN t THEN << [action |-> "Add", items |-> StringsOf(t["add"])] >> ELSE <<>>)
  \o (IF "remove" \in DOMAIN t
      THEN << [action |-> "Remove", items |-> StringsOf(t["remove"])] >> ELSE <<>>)

\* C15: get_string_list returns None when the scope or the option is
\* absent, one Replace edit for an array of strings, for a table an error
\* when it is empty or has a key other than add and remove and else the
\* edits Add then Remove, an error whenever a list is not an array of
\* strings, and never Some of no edits.
C15_StringListEdits ==
  Queried =>
    LET r == list_edits[1]
        v == AskedValue
    IN
    /\ (r.ok /\ r.val /= None) => r.val[1] /= <<>>
    /\ IF v = None THEN r = Ok(None)
       ELSE IF v[1].type = "table"
       THEN LET t == v[1].entries IN
            IF DOMAIN t = {} \/ ~(DOMAIN t \subseteq {"add", "remove"})
            THEN ~r.ok
            ELSE IF \A k \in DOMAIN t : IsStringArray(t[k])
            THEN r = Ok(Some(AddThenRemove(t)))
            ELSE ~r.ok
       ELSE IF IsStringArray(v[1])
       THEN r = Ok(Some(<< [action |-> "Replace", items |-> StringsOf(v[1])] >>))
       ELSE ~r.ok

\* a table with both keys gives the Add edit, then the Remove edit
C15_Witness ==
  /\ Queried
  /\ option_id = Some(OptionId("GLOBAL", "both"))
  /\ list_edits[1] = Ok(Some(<< [action |-> "Add", items |-> <<"a">>],
                                [action |-> "Remove", items |-> <<"b">>] >>))

\* an array with an item that is not a string is an error
C15_WitnessError ==
  /\ Queried
  /\ option_id = Some(OptionId("GLOBAL", "mixed"))
  /\ AskedValue /= None
  /\ ~list_edits[1].ok

\* a scope that is not a table has no options
C15_WitnessNone ==
  /\ Queried
  /\ option_id = Some(OptionId("GLOBAL", "replace"))
  /\ config_files = <<"lists.toml", "scope.toml">>
  /\ list_edits[1] = Ok(None)

====
